---------------------------- MODULE Spec2Model ----------------------------
(***************************************************************************)
(* A model of the uma-card-manager command line tool (src/py).             *)
(*                                                                         *)
(* The tool is single threaded: every subcommand (add, enrich, update,     *)
(* recommend) reads JSON files fully into memory, computes and writes.     *)
(* The state is therefore the content of the files on disk plus a record   *)
(* of what the last run did (its arguments, exit status and output).       *)
(* One action models one whole run of a subcommand.                        *)
(*                                                                         *)
(* Files are modelled at the level of the JSON value they hold (or         *)
(* "missing" / "invalid" when there is no file or it does not parse);      *)
(* json.dump followed by json.load is the identity on such values.         *)
(***************************************************************************)
EXTENDS Integers, Sequences, FiniteSets, TLC

VARIABLES fs, last

vars == <<fs, last>>

----------------------------------------------------------------------------
(* JSON scalars as they appear in card records.  A Python dict key that is *)
(* absent (dict.get returns None) is JNone.                                *)

JInt(n) == [t |-> "int", i |-> n, s |-> ""]
JStr(x) == [t |-> "str", i |-> 0, s |-> x]
JNone == [t |-> "none", i |-> 0, s |-> ""]

\* isinstance(v, int) / isinstance(v, str)
IsInt(v) == v.t = "int"
IsStr(v) == v.t = "str"

\* A JSON array held in a field, or the field being absent / not a list.
JList(seq) == [t |-> "list", l |-> seq]
NoList == [t |-> "none", l |-> <<>>]

Range(f) == {f[x] : x \in DOMAIN f}

\* All sequences over S of length 0..n.
SeqUpTo(S, n) == UNION {[1..k -> S] : k \in 0..n}

----------------------------------------------------------------------------
(* Card records.  One record shape covers UserCard and EnrichedCard        *)
(* (util.py): the enrichment fields id, score, tier are JNone on a user    *)
(* card.                                                                   *)

UserCard(name, type, rarity, lb) ==
    [name |-> name, type |-> type, rarity |-> rarity, lb |-> lb,
     id |-> JNone, score |-> JNone, tier |-> JNone]

\* The identity key (name, type, rarity) of a card, as JSON scalars.
KeyOf(card) == <<card.name, card.type, card.rarity>>

\* The command line key: name is a str, type and rarity are parsed ints.
ArgKey(name, card_type, rarity) == <<JStr(name), JInt(card_type), JInt(rarity)>>

----------------------------------------------------------------------------
(* File contents.                                                          *)
(*   kind     "missing" (no file), "invalid" (not JSON), "scalar" (JSON    *)
(*            that is neither array nor object), "list", "object"          *)
(*   list     the cards of a top-level array, or of an object's "cards"    *)
(*            when that is an array                                        *)
(*   cards    for an object: "absent", "dict" (tierlist), "list"           *)
(*   dict     the entries of a "cards" object, in file order               *)
(*   meta     for an object: its "metadata" (absent, or the two hashes)    *)

EmptyHash == <<"">>
NoMeta == [present |-> FALSE, input_hash |-> EmptyHash, tierlist_hash |-> EmptyHash]
Meta(ih, th) == [present |-> TRUE, input_hash |-> ih, tierlist_hash |-> th]

FMissing == [kind |-> "missing", list |-> <<>>, cards |-> "absent", dict |-> <<>>, meta |-> NoMeta]
FInvalid == [kind |-> "invalid", list |-> <<>>, cards |-> "absent", dict |-> <<>>, meta |-> NoMeta]
FScalar == [kind |-> "scalar", list |-> <<>>, cards |-> "absent", dict |-> <<>>, meta |-> NoMeta]
FList(cards) == [kind |-> "list", list |-> cards, cards |-> "absent", dict |-> <<>>, meta |-> NoMeta]
FBareObject == [kind |-> "object", list |-> <<>>, cards |-> "absent", dict |-> <<>>, meta |-> NoMeta]
FTierlist(entries) == [kind |-> "object", list |-> <<>>, cards |-> "dict", dict |-> entries, meta |-> NoMeta]
FEnriched(meta, cards) == [kind |-> "object", list |-> cards, cards |-> "list", dict |-> <<>>, meta |-> meta]

\* The three files the tool works on (the defaults of the path options).
MY_CARDS == "my_cards.json"
TIERLIST == "precomputed-tierlist.json"
ENRICHED == "my_cards_enriched.json"
Paths == {MY_CARDS, TIERLIST, ENRICHED}

\* util.get_file_hash: "" for a file that does not exist, else the SHA-256
\* of its bytes, modelled as an injective function of the content.
get_file_hash(files, path) ==
    IF files[path].kind = "missing" THEN EmptyHash ELSE <<"sha256", files[path]>>

\* util.load_json: the parsed value, or sys.exit(1) for a missing file or
\* a JSON parse error.
load_json_exits(files, path) == files[path].kind \in {"missing", "invalid"}

----------------------------------------------------------------------------
(* The record of a run.  Every field is present for every subcommand;      *)
(* a subcommand sets the ones it uses.                                     *)
(*   status  the process exit status (1 also for an uncaught exception)    *)
(*   how     "return", "sys.exit" or the name of the uncaught exception    *)
(*   wrote   the run saved a file                                          *)
(*   cards_after  enrich: the input list in memory after enrich_cards      *)
(*   selected, support  recommend: the owned cards of the deck, and the    *)
(*           support card (a sequence of none or one candidate)            *)
(*   tierlist_read  recommend: the run read the tierlist file              *)
(*   warned  recommend: "could not find support card" was printed          *)
(*   unfilled  recommend: "could not fill all 6 slots" was printed         *)

NoRun ==
    [cmd |-> "none", input |-> "", tierlist |-> "", output |-> "",
     force |-> FALSE, key |-> <<>>, counts |-> <<>>, no_support |-> FALSE,
     status |-> 0, how |-> "return", msg |-> "",
     wrote |-> FALSE, input_hash |-> EmptyHash, tierlist_hash |-> EmptyHash,
     cards_after |-> <<>>, selected |-> <<>>, support |-> <<>>,
     tierlist_read |-> FALSE, warned |-> FALSE, unfilled |-> FALSE]

----------------------------------------------------------------------------
(* add.py                                                                  *)

\* The mutant: the scan keeps the last match instead of returning the first.
find_card_index_last(cards, name, card_type, rarity) ==
    LET hits == {i \in 1..Len(cards) : KeyOf(cards[i]) = ArgKey(name, card_type, rarity)}
    IN  IF hits = {} THEN 0 ELSE CHOOSE i \in hits : \A j \in hits : i >= j

\* The mutant: only the name is compared.
find_card_index_by_name(cards, name, card_type, rarity) ==
    LET hits == {i \in 1..Len(cards) : cards[i].name = JStr(name)}
    IN  IF hits = {} THEN 0 ELSE CHOOSE i \in hits : \A j \in hits : i <= j

\* add.find_card_index: the first index whose (name, type, rarity) equals
\* the arguments, 0 for Python's -1.
find_card_index(cards, name, card_type, rarity) ==
    LET hits == {i \in 1..Len(cards) : KeyOf(cards[i]) = ArgKey(name, card_type, rarity)}
    IN  IF hits = {} THEN 0 ELSE CHOOSE i \in hits : \A j \in hits : i <= j

\* The mutant: the cap compares with > instead of >=.
add_card_cap_off_by_one(cards, name, card_type, rarity) ==
    LET idx == find_card_index(cards, name, card_type, rarity)
        lb == cards[idx].lb
        current_lb == IF lb.t = "none" THEN 0 ELSE lb.i
    IN  IF idx /= 0
        THEN IF lb.t = "str"
             THEN [cards |-> cards, msg |-> "", raised |-> "TypeError"]
             ELSE IF current_lb > 4
                  THEN [cards |-> cards, msg |-> "already at max", raised |-> ""]
                  ELSE [cards |-> [cards EXCEPT ![idx].lb = JInt(current_lb + 1)],
                        msg |-> "increased", raised |-> ""]
        ELSE [cards |-> Append(cards, UserCard(JStr(name), JInt(card_type), JInt(rarity), JInt(0))),
              msg |-> "added", raised |-> ""]

\* add.add_card: the updated list and the message; comparing a str lb
\* with 4 raises TypeError.  cards[idx].get("lb", 0) is 0 for an absent lb.
add_card(cards, name, card_type, rarity) ==
    LET idx == find_card_index(cards, name, card_type, rarity)
        lb == cards[idx].lb
        current_lb == IF lb.t = "none" THEN 0 ELSE lb.i
    IN  IF idx /= 0
        THEN IF lb.t = "str"
             THEN [cards |-> cards, msg |-> "", raised |-> "TypeError"]
             ELSE IF current_lb >= 4
                  THEN [cards |-> cards, msg |-> "already at max", raised |-> ""]
                  ELSE [cards |-> [cards EXCEPT ![idx].lb = JInt(current_lb + 1)],
                        msg |-> "increased", raised |-> ""]
        ELSE [cards |-> Append(cards, UserCard(JStr(name), JInt(card_type), JInt(rarity), JInt(0))),
              msg |-> "added", raised |-> ""]

\* add.run: load the collection, add the card, save it back.
add_run(input, name, card_type, rarity) ==
    LET run == [NoRun EXCEPT !.cmd = "add", !.input = input,
                             !.key = ArgKey(name, card_type, rarity)]
        res == add_card(fs[input].list, name, card_type, rarity)
    IN  IF load_json_exits(fs, input)
        THEN /\ last' = [run EXCEPT !.status = 1, !.how = "sys.exit"]
             /\ UNCHANGED fs
        ELSE IF fs[input].kind /= "list"
        THEN /\ last' = [run EXCEPT !.status = 1]
             /\ UNCHANGED fs
        ELSE IF res.raised /= ""
        THEN /\ last' = [run EXCEPT !.status = 1, !.how = res.raised]
             /\ UNCHANGED fs
        ELSE /\ fs' = [fs EXCEPT ![input] = FList(res.cards)]
             /\ last' = [run EXCEPT !.wrote = TRUE, !.msg = res.msg]

----------------------------------------------------------------------------
(* enrich.py                                                               *)

\* A tierlist entry (util.TierlistCard): a value of the "cards" object.
\* key is the entry's key in that object: a string, of digits or not.
DictKey(n) == [isdigit |-> TRUE, n |-> n]
TierlistCard(key, id, name, type, rarity, scores, tiers) ==
    [key |-> key, id |-> id, name |-> name, type |-> type, rarity |-> rarity,
     scores |-> scores, tiers |-> tiers]

\* CardKey(name, type, rarity) needs a str and two ints.
WellFormedKey(card) == IsStr(card.name) /\ IsInt(card.type) /\ IsInt(card.rarity)

\* The mutant: a key already in the index is overwritten by the later entry.
build_tierlist_index_keep_last(entries) ==
    LET RECURSIVE loop(_)
        loop(k) ==
            IF k = 0 THEN <<>>
            ELSE LET index == loop(k - 1)
                     card == entries[k]
                 IN  IF ~WellFormedKey(card) THEN index
                     ELSE (KeyOf(card) :> card) @@ index
    IN  loop(Len(entries))

\* enrich.build_tierlist_index over the entries of the "cards" object, in
\* file order: a malformed entry is skipped, a key already in the index
\* keeps its first entry.  The index is a function from keys to entries.
build_tierlist_index(entries) ==
    LET RECURSIVE loop(_)
        loop(k) ==
            IF k = 0 THEN <<>>
            ELSE LET index == loop(k - 1)
                     card == entries[k]
                 IN  IF ~WellFormedKey(card) THEN index
                     ELSE IF KeyOf(card) \in DOMAIN index THEN index
                     ELSE index @@ (KeyOf(card) :> card)
    IN  loop(Len(entries))

\* The mutant: out is the input record itself, not a copy, so what is
\* written to out shows in the caller's card.
enrich_card_in_place(card, tier_index) ==
    LET tier_card == tier_index[KeyOf(card)]
        with_id == IF tier_card.id /= JNone THEN [card EXCEPT !.id = tier_card.id] ELSE card
        lb == card.lb
        scores == tier_card.scores
        tiers == tier_card.tiers
    IN  IF ~WellFormedKey(card) THEN [card |-> card, emit |-> TRUE, out |-> card]
        ELSE IF KeyOf(card) \notin DOMAIN tier_index
        THEN [card |-> card, emit |-> FALSE, out |-> card]
        ELSE IF ~IsInt(lb) THEN [card |-> with_id, emit |-> TRUE, out |-> with_id]
        ELSE IF scores.t /= "list" \/ tiers.t /= "list"
        THEN [card |-> with_id, emit |-> TRUE, out |-> with_id]
        ELSE IF ~(0 <= lb.i /\ lb.i < Len(scores.l)) \/ ~(0 <= lb.i /\ lb.i < Len(tiers.l))
        THEN [card |-> with_id, emit |-> TRUE, out |-> with_id]
        ELSE LET full == [with_id EXCEPT !.score = scores.l[lb.i + 1],
                                         !.tier = tiers.l[lb.i + 1]]
             IN  [card |-> full, emit |-> TRUE, out |-> full]

\* The mutant: a card with no tierlist match is passed through instead of
\* being dropped.
enrich_card_keep_unmatched(card, tier_index) ==
    LET tier_card == tier_index[KeyOf(card)]
        with_id == IF tier_card.id /= JNone THEN [card EXCEPT !.id = tier_card.id] ELSE card
        lb == card.lb
        scores == tier_card.scores
        tiers == tier_card.tiers
    IN  IF ~WellFormedKey(card) THEN [card |-> card, emit |-> TRUE, out |-> card]
        ELSE IF KeyOf(card) \notin DOMAIN tier_index
        THEN [card |-> card, emit |-> TRUE, out |-> card]
        ELSE IF ~IsInt(lb) THEN [card |-> card, emit |-> TRUE, out |-> with_id]
        ELSE IF scores.t /= "list" \/ tiers.t /= "list"
        THEN [card |-> card, emit |-> TRUE, out |-> with_id]
        ELSE IF ~(0 <= lb.i /\ lb.i < Len(scores.l)) \/ ~(0 <= lb.i /\ lb.i < Len(tiers.l))
        THEN [card |-> card, emit |-> TRUE, out |-> with_id]
        ELSE [card |-> card, emit |-> TRUE,
              out |-> [with_id EXCEPT !.score = scores.l[lb.i + 1],
                                      !.tier = tiers.l[lb.i + 1]]]

\* The mutant: the range check starts at 1, so lb = 0 gets no score or tier.
enrich_card_lb_from_one(card, tier_index) ==
    LET tier_card == tier_index[KeyOf(card)]
        with_id == IF tier_card.id /= JNone THEN [card EXCEPT !.id = tier_card.id] ELSE card
        lb == card.lb
        scores == tier_card.scores
        tiers == tier_card.tiers
    IN  IF ~WellFormedKey(card) THEN [card |-> card, emit |-> TRUE, out |-> card]
        ELSE IF KeyOf(card) \notin DOMAIN tier_index
        THEN [card |-> card, emit |-> FALSE, out |-> card]
        ELSE IF ~IsInt(lb) THEN [card |-> card, emit |-> TRUE, out |-> with_id]
        ELSE IF scores.t /= "list" \/ tiers.t /= "list"
        THEN [card |-> card, emit |-> TRUE, out |-> with_id]
        ELSE IF ~(0 < lb.i /\ lb.i < Len(scores.l)) \/ ~(0 < lb.i /\ lb.i < Len(tiers.l))
        THEN [card |-> card, emit |-> TRUE, out |-> with_id]
        ELSE [card |-> card, emit |-> TRUE,
              out |-> [with_id EXCEPT !.score = scores.l[lb.i + 1],
                                      !.tier = tiers.l[lb.i + 1]]]

\* One iteration of the loop of enrich.enrich_cards: the input record after
\* the iteration (card), whether a record is appended (emit) and the record
\* (out).  out starts as dict(card), a copy; only out is written to.
enrich_card(card, tier_index) ==
    LET tier_card == tier_index[KeyOf(card)]
        with_id == IF tier_card.id /= JNone THEN [card EXCEPT !.id = tier_card.id] ELSE card
        lb == card.lb
        scores == tier_card.scores
        tiers == tier_card.tiers
    IN  IF ~WellFormedKey(card) THEN [card |-> card, emit |-> TRUE, out |-> card]
        ELSE IF KeyOf(card) \notin DOMAIN tier_index
        THEN [card |-> card, emit |-> FALSE, out |-> card]
        ELSE IF ~IsInt(lb) THEN [card |-> card, emit |-> TRUE, out |-> with_id]
        ELSE IF scores.t /= "list" \/ tiers.t /= "list"
        THEN [card |-> card, emit |-> TRUE, out |-> with_id]
        ELSE IF ~(0 <= lb.i /\ lb.i < Len(scores.l)) \/ ~(0 <= lb.i /\ lb.i < Len(tiers.l))
        THEN [card |-> card, emit |-> TRUE, out |-> with_id]
        ELSE [card |-> card, emit |-> TRUE,
              out |-> [with_id EXCEPT !.score = scores.l[lb.i + 1],
                                      !.tier = tiers.l[lb.i + 1]]]

\* The mutant: a card with invalid key fields ends the loop (break for
\* continue), so the cards after it are not processed.
enrich_cards_break(cards, tier_index) ==
    LET RECURSIVE loop(_)
        loop(k) ==
            IF k = 0 THEN [enriched |-> <<>>, cards |-> <<>>, done |-> FALSE]
            ELSE LET acc == loop(k - 1)
                     step == enrich_card(cards[k], tier_index)
                 IN  IF acc.done THEN [acc EXCEPT !.cards = Append(acc.cards, cards[k])]
                     ELSE [enriched |-> IF step.emit THEN Append(acc.enriched, step.out)
                                        ELSE acc.enriched,
                           cards |-> Append(acc.cards, step.card),
                           done |-> ~WellFormedKey(cards[k])]
    IN  [enriched |-> loop(Len(cards)).enriched, cards |-> loop(Len(cards)).cards]

\* enrich.enrich_cards: the new list (enriched) and the input list as it is
\* after the call (cards).
enrich_cards(cards, tier_index) ==
    LET RECURSIVE loop(_)
        loop(k) ==
            IF k = 0 THEN [enriched |-> <<>>, cards |-> <<>>]
            ELSE LET acc == loop(k - 1)
                     step == enrich_card(cards[k], tier_index)
                 IN  [enriched |-> IF step.emit THEN Append(acc.enriched, step.out)
                                   ELSE acc.enriched,
                      cards |-> Append(acc.cards, step.card)]
    IN  loop(Len(cards))

\* How reading the tierlist fails in enrich.run after load_json returned:
\* tierlist_data.get on a value that is no dict and cards.items() on a list
\* raise AttributeError, a missing "cards" raises ValueError; "" when the
\* index is built.
tierlist_index_raises(content) ==
    IF content.kind /= "object" THEN "AttributeError"
    ELSE IF content.cards = "absent" THEN "ValueError"
    ELSE IF content.cards /= "dict" THEN "AttributeError"
    ELSE ""

\* The mutant: the stored hashes are compared with the wrong current hash.
up_to_date_check_swapped(content, current_input_hash, current_tierlist_hash) ==
    IF content.kind = "invalid" THEN "sys.exit"
    ELSE IF /\ content.kind = "object"
            /\ content.meta.present
            /\ content.meta.input_hash = current_tierlist_hash
            /\ content.meta.tierlist_hash = current_input_hash
    THEN "skip"
    ELSE "proceed"

\* The mutant: only the input hash is compared.
up_to_date_check_input_only(content, current_input_hash, current_tierlist_hash) ==
    IF content.kind = "invalid" THEN "sys.exit"
    ELSE IF /\ content.kind = "object"
            /\ content.meta.present
            /\ content.meta.input_hash = current_input_hash
    THEN "skip"
    ELSE "proceed"

\* The up-to-date check of enrich.run (lines 239-254) when the output file
\* exists: "sys.exit" when load_json cannot parse it, "skip" when its
\* metadata holds both current hashes, else "proceed" (also when testing
\* "metadata" in a scalar raises, which the except clause swallows).
up_to_date_check(content, current_input_hash, current_tierlist_hash) ==
    IF content.kind = "invalid" THEN "sys.exit"
    ELSE IF /\ content.kind = "object"
            /\ content.meta.present
            /\ content.meta.input_hash = current_input_hash
            /\ content.meta.tierlist_hash = current_tierlist_hash
    THEN "skip"
    ELSE "proceed"

\* enrich.run on the files `files`: the files after the run and the record
\* of the run.  has_force is whether args has a force attribute at all.
enrich_result(files, input, tierlist, output, has_force, force) ==
    LET current_input_hash == get_file_hash(files, input)
        current_tierlist_hash == get_file_hash(files, tierlist)
        run == [NoRun EXCEPT !.cmd = "enrich", !.input = input, !.tierlist = tierlist,
                             !.output = output, !.force = force,
                             !.input_hash = current_input_hash,
                             !.tierlist_hash = current_tierlist_hash]
        check == IF ~force /\ files[output].kind /= "missing"
                 THEN up_to_date_check(files[output], current_input_hash, current_tierlist_hash)
                 ELSE "proceed"
        raised == tierlist_index_raises(files[tierlist])
        res == enrich_cards(files[input].list, build_tierlist_index(files[tierlist].dict))
        output_data == FEnriched(Meta(current_input_hash, current_tierlist_hash), res.enriched)
    IN  IF ~has_force
        THEN [fs |-> files, run |-> [run EXCEPT !.status = 1, !.how = "AttributeError"]]
        ELSE IF check = "sys.exit"
        THEN [fs |-> files, run |-> [run EXCEPT !.status = 1, !.how = "sys.exit"]]
        ELSE IF check = "skip"
        THEN [fs |-> files, run |-> [run EXCEPT !.msg = "up to date"]]
        ELSE IF load_json_exits(files, input)
        THEN [fs |-> files, run |-> [run EXCEPT !.status = 1, !.how = "sys.exit"]]
        ELSE IF files[input].kind /= "list"
        THEN [fs |-> files, run |-> [run EXCEPT !.status = 1]]
        ELSE IF load_json_exits(files, tierlist)
        THEN [fs |-> files, run |-> [run EXCEPT !.status = 1, !.how = "sys.exit"]]
        ELSE IF raised /= ""
        THEN [fs |-> files, run |-> [run EXCEPT !.status = 1, !.how = raised]]
        ELSE [fs |-> [files EXCEPT ![output] = output_data],
              run |-> [run EXCEPT !.wrote = TRUE, !.msg = "enriched",
                                  !.cards_after = res.cards]]

\* The enrich subcommand: argparse always sets args.force.
enrich_run(input, tierlist, output, force) ==
    LET r == enrich_result(fs, input, tierlist, output, TRUE, force)
    IN  fs' = r.fs /\ last' = r.run

----------------------------------------------------------------------------
(* recommend.py                                                            *)

TIER_ORDER == <<"S+", "S", "A+", "A", "B+", "B", "C+", "C", "D+", "D", "E+", "E", "F">>

\* recommend.get_tier_value with TIER_VALUE = {t: len(TIER_ORDER) - i}
\* (i from 0): 13 for "S+" down to 1 for "F", 0 for no or an unknown tier.
get_tier_value(tier) ==
    IF IsStr(tier) /\ \E k \in DOMAIN TIER_ORDER : TIER_ORDER[k] = tier.s
    THEN Len(TIER_ORDER) - ((CHOOSE k \in DOMAIN TIER_ORDER : TIER_ORDER[k] = tier.s) - 1)
    ELSE 0

\* The size of a deck, and the card types counts are given for (0..5).
DECK_SIZE == 6
NUM_TYPES == 6

\* c.get("score", 0)
ScoreOf(card) == IF card.score = JNone THEN 0 ELSE card.score.i

MaxOf(S) == CHOOSE x \in S : \A y \in S : y <= x

Sum(seq) ==
    LET RECURSIVE loop(_)
        loop(k) == IF k = 0 THEN 0 ELSE loop(k - 1) + seq[k]
    IN  loop(Len(seq))

\* seq[:count] of Python: the first count elements, or for a negative
\* count all but the last -count.
PySlice(seq, count) ==
    LET n == IF count >= 0 THEN (IF count < Len(seq) THEN count ELSE Len(seq))
             ELSE (IF Len(seq) + count > 0 THEN Len(seq) + count ELSE 0)
    IN  SubSeq(seq, 1, n)

\* list.sort(key=lambda c: c.get("score", 0), reverse=True): by score,
\* highest first; the sort is stable, equal scores keep their order.
SortByScoreDesc(seq) ==
    LET rank(i) == Cardinality({j \in DOMAIN seq :
                       \/ ScoreOf(seq[j]) > ScoreOf(seq[i])
                       \/ (ScoreOf(seq[j]) = ScoreOf(seq[i]) /\ j < i)}) + 1
    IN  [k \in DOMAIN seq |-> seq[CHOOSE i \in DOMAIN seq : rank(i) = k]]

\* How get_best_cards_by_type_from_tierlist fails after load_json returned:
\* ValueError when the tierlist is no object with a "cards" object.
tierlist_format_raises(content) ==
    IF content.kind /= "object" \/ content.cards /= "dict" THEN "ValueError" ELSE ""

\* The mutant: the lb = 4 test is missing, every owned id counts.
mlb_ids_of_any_lb(my_cards) ==
    {my_cards[k].id : k \in {j \in DOMAIN my_cards : my_cards[j].id /= JNone}}

\* recommend.py line 50: the ids of the cards owned at lb = 4.
mlb_ids_of(my_cards) ==
    {my_cards[k].id : k \in {j \in DOMAIN my_cards :
        my_cards[j].lb = JInt(4) /\ my_cards[j].id /= JNone}}

\* One iteration of the loop of get_best_cards_by_type_from_tierlist
\* (lines 54-90) on the entry card_dict: best_by_type after it.  A
\* candidate is (id, name, type, max_score, max_tier).
best_by_type_step(best_by_type, card_dict, mlb_ids) ==
    LET card_id_int == IF IsInt(card_dict.id) THEN card_dict.id.i
                       ELSE IF card_dict.key.isdigit THEN card_dict.key.n ELSE 0
        scores == card_dict.scores
        tiers == card_dict.tiers
        max_score == MaxOf({scores.l[j].i : j \in DOMAIN scores.l})
        max_tier == tiers.l[Len(tiers.l)]
        card_type == card_dict.type
        at == {j \in DOMAIN best_by_type : best_by_type[j].type = card_type.i}
        current_best == best_by_type[CHOOSE j \in at : TRUE]
        entry == [id |-> card_id_int,
                  name |-> IF IsStr(card_dict.name) THEN card_dict.name ELSE JStr("Unknown"),
                  type |-> card_type.i, score |-> max_score, tier |-> max_tier]
    IN  IF JInt(card_id_int) \in mlb_ids THEN best_by_type
        ELSE IF scores.t /= "list" \/ tiers.t /= "list" THEN best_by_type
        ELSE IF scores.l = <<>> \/ tiers.l = <<>> THEN best_by_type
        ELSE IF ~IsInt(card_type) \/ card_type.i = -1 THEN best_by_type
        ELSE IF at = {} THEN Append(best_by_type, entry)
        ELSE IF \/ get_tier_value(max_tier) > get_tier_value(current_best.tier)
                \/ /\ get_tier_value(max_tier) = get_tier_value(current_best.tier)
                   /\ max_score > current_best.score
        THEN [best_by_type EXCEPT ![CHOOSE j \in at : TRUE] = entry]
        ELSE best_by_type

\* recommend.get_best_cards_by_type_from_tierlist: per type, the best entry
\* (by tier value of the last tier, then highest score) whose id is not the
\* id of a card owned at lb = 4.  The result lists the candidates in the
\* order their types were first entered, the order .values() iterates.
get_best_cards_by_type_from_tierlist(entries, my_cards) ==
    LET RECURSIVE loop(_)
        loop(k) ==
            IF k = 0 THEN <<>>
            ELSE best_by_type_step(loop(k - 1), entries[k], mlb_ids_of(my_cards))
    IN  loop(Len(entries))

\* recommend.find_best_card_in_tierlist: max() over the candidates by
\* (tier value, score); max returns the first of several maximal ones.
\* Only used where there is a candidate.
find_best_card_in_tierlist(best_by_type) ==
    LET key(c) == <<get_tier_value(c.tier), c.score>>
        less(a, b) == a[1] < b[1] \/ (a[1] = b[1] /\ a[2] < b[2])
    IN  best_by_type[CHOOSE k \in DOMAIN best_by_type :
            /\ \A j \in DOMAIN best_by_type : ~less(key(best_by_type[k]), key(best_by_type[j]))
            /\ \A j \in 1..(k - 1) : less(key(best_by_type[j]), key(best_by_type[k]))]

\* The mutant: the excluded id is ignored.
select_best_cards_by_type_no_exclude(my_cards, type_counts, exclude_card_id) ==
    LET cards_of(t) == SortByScoreDesc(SelectSeq(my_cards,
                           LAMBDA card : card.type /= JNone /\ card.type = JInt(t)))
        RECURSIVE loop(_)
        loop(k) ==
            IF k = 0 THEN <<>>
            ELSE loop(k - 1) \o PySlice(cards_of(k - 1), type_counts[k])
    IN  loop(Len(type_counts))

\* recommend.select_best_cards_by_type.  type_counts is the sequence of the
\* six counts (type t at index t + 1); exclude_card_id is a JSON scalar,
\* JNone for Python's None, so that a card without id equals "no exclusion"
\* as None == None does.
select_best_cards_by_type(my_cards, type_counts, exclude_card_id) ==
    LET cards_of(t) == SortByScoreDesc(SelectSeq(my_cards,
                           LAMBDA card : /\ card.type /= JNone
                                         /\ card.id /= exclude_card_id
                                         /\ card.type = JInt(t)))
        RECURSIVE loop(_)
        loop(k) ==
            IF k = 0 THEN <<>>
            ELSE loop(k - 1) \o PySlice(cards_of(k - 1), type_counts[k])
    IN  loop(Len(type_counts))

IdsOf(cards) == {cards[k].id : k \in DOMAIN cards}

\* The mutant: the borrowed card is not counted, the deck is filled up to 6
\* owned cards.
fill_remaining_uncounted(my_cards, selected, borrowed_ids) ==
    LET current_total == Len(selected)
        sel_ids == IdsOf(selected) \cup borrowed_ids
    IN  IF current_total < DECK_SIZE
        THEN selected \o PySlice(SortByScoreDesc(SelectSeq(my_cards,
                             LAMBDA c : c.id \notin sel_ids /\ c.score /= JNone)),
                         DECK_SIZE - current_total)
        ELSE selected

\* The mutant: the remaining cards are not sorted, the first ones in file
\* order fill the deck.
fill_remaining_unsorted(my_cards, selected, borrowed_ids) ==
    LET current_total == Len(selected) + Cardinality(borrowed_ids)
        sel_ids == IdsOf(selected) \cup borrowed_ids
    IN  IF current_total < DECK_SIZE
        THEN selected \o PySlice(SelectSeq(my_cards,
                             LAMBDA c : c.id \notin sel_ids /\ c.score /= JNone),
                         DECK_SIZE - current_total)
        ELSE selected

\* The mutant: the backfill stops one card short of a full deck.
fill_remaining_one_short(my_cards, selected, borrowed_ids) ==
    LET current_total == Len(selected) + Cardinality(borrowed_ids)
        sel_ids == IdsOf(selected) \cup borrowed_ids
    IN  IF current_total < DECK_SIZE - 1
        THEN selected \o PySlice(SortByScoreDesc(SelectSeq(my_cards,
                             LAMBDA c : c.id \notin sel_ids /\ c.score /= JNone)),
                         DECK_SIZE - 1 - current_total)
        ELSE selected

\* The backfill of recommend.run (lines 340-346 with the borrowed card,
\* lines 372-385 without): when selected and the borrowed cards are fewer
\* than 6, the owned cards that have a score and whose id is neither
\* selected nor in borrowed_ids are added, best first, up to 6 in total.
fill_remaining(my_cards, selected, borrowed_ids) ==
    LET current_total == Len(selected) + Cardinality(borrowed_ids)
        sel_ids == IdsOf(selected) \cup borrowed_ids
    IN  IF current_total < DECK_SIZE
        THEN selected \o PySlice(SortByScoreDesc(SelectSeq(my_cards,
                             LAMBDA c : c.id \notin sel_ids /\ c.score /= JNone)),
                         DECK_SIZE - current_total)
        ELSE selected

\* The mutant: every requested type gives up a slot, not only the borrowed
\* card's type.
sim_type_counts_of_every(type_counts, cand_type) ==
    [k \in DOMAIN type_counts |-> IF type_counts[k] > 0 THEN type_counts[k] - 1 ELSE 0]

\* recommend.run lines 332-334: the borrowed card fills a slot of its type.
sim_type_counts_of(type_counts, cand_type) ==
    IF cand_type + 1 \in DOMAIN type_counts /\ type_counts[cand_type + 1] > 0
    THEN [type_counts EXCEPT ![cand_type + 1] = type_counts[cand_type + 1] - 1]
    ELSE type_counts

\* recommend.run lines 349-350: a candidate, its deck and the deck's totals.
simulated(borrow_candidate, current_selected) ==
    [support |-> borrow_candidate,
     selected |-> current_selected,
     total_score |-> borrow_candidate.score
                     + Sum([k \in DOMAIN current_selected |-> ScoreOf(current_selected[k])]),
     total_tier_val |-> get_tier_value(borrow_candidate.tier)
                        + Sum([k \in DOMAIN current_selected |->
                                  get_tier_value(current_selected[k].tier)])]

\* The body of the loop over the borrow candidates (lines 329-350).
simulate_borrow(my_cards, type_counts, borrow_candidate) ==
    simulated(borrow_candidate,
              fill_remaining(my_cards,
                  select_best_cards_by_type(my_cards,
                      sim_type_counts_of(type_counts, borrow_candidate.type),
                      JInt(borrow_candidate.id)),
                  {JInt(borrow_candidate.id)}))

\* The mutant: the total score is compared first, the tier value second.
keep_better_score_first(best, sim) ==
    LET best_overall_tier_val == IF best = <<>> THEN -1 ELSE best[1].total_tier_val
        best_overall_score == IF best = <<>> THEN -1 ELSE best[1].total_score
    IN  IF \/ sim.total_score > best_overall_score
           \/ (sim.total_score = best_overall_score /\ sim.total_tier_val > best_overall_tier_val)
        THEN <<sim>>
        ELSE best

\* recommend.run lines 353-357: best is replaced on a strict improvement of
\* (total tier value, total score); it starts as none, with (-1, -1).
keep_better(best, sim) ==
    LET best_overall_tier_val == IF best = <<>> THEN -1 ELSE best[1].total_tier_val
        best_overall_score == IF best = <<>> THEN -1 ELSE best[1].total_score
    IN  IF \/ sim.total_tier_val > best_overall_tier_val
           \/ (sim.total_tier_val = best_overall_tier_val /\ sim.total_score > best_overall_score)
        THEN <<sim>>
        ELSE best

\* The support search of recommend.run (lines 323-357): <<>> when there is
\* no candidate, else the kept simulation.
best_support_search(my_cards, type_counts, potential_borrows) ==
    LET RECURSIVE loop(_)
        loop(k) ==
            IF k = 0 THEN <<>>
            ELSE keep_better(loop(k - 1),
                             simulate_borrow(my_cards, type_counts, potential_borrows[k]))
    IN  loop(Len(potential_borrows))

\* recommend.run lines 359-385: the deck of the kept simulation, or without
\* a support card the per-type selection filled up.
deck_of(best_support, my_cards, type_counts) ==
    IF best_support /= <<>>
    THEN [support |-> <<best_support[1].support>>, selected |-> best_support[1].selected]
    ELSE [support |-> <<>>,
          selected |-> fill_remaining(my_cards,
                           select_best_cards_by_type(my_cards, type_counts, JNone), {})]

\* recommend.run lines 279-284: the positional counts, filled with 0.
type_counts_of(counts) ==
    [k \in 1..NUM_TYPES |-> IF k <= Len(counts) THEN counts[k] ELSE 0]

\* util.load_enriched_cards after load_json returned: "cards" of an object
\* that has it, or a top-level array; else sys.exit(1).
load_enriched_cards_exits(content) ==
    ~(content.kind = "list" \/ (content.kind = "object" /\ content.cards /= "absent"))

\* How loading the inputs of a recommendation ends the run: "sys.exit" from
\* load_json or load_enriched_cards, "AttributeError" when "cards" of the
\* input is a non-empty object (its keys are no cards), "" when both load.
recommend_load_fails(files, input, tierlist, searched) ==
    IF load_json_exits(files, input) \/ load_enriched_cards_exits(files[input]) THEN "sys.exit"
    ELSE IF searched /\ load_json_exits(files, tierlist) THEN "sys.exit"
    ELSE IF files[input].cards = "dict" /\ files[input].dict /= <<>> THEN "AttributeError"
    ELSE ""

\* The record of a recommendation that printed a deck.
recommended(run, searched, warned, deck) ==
    [run EXCEPT !.tierlist_read = searched,
                !.warned = warned,
                !.support = deck.support,
                !.selected = deck.selected,
                !.unfilled = Len(deck.selected) + Len(deck.support) < DECK_SIZE]

\* recommend.run_best_cards lines 452-470: the support card is the best
\* candidate of all types, the deck the 5 (or 6 without support card) owned
\* cards with the highest scores.
best_cards_deck(potential, my_cards) ==
    IF potential /= <<>>
    THEN [support |-> <<find_best_card_in_tierlist(potential)>>,
          selected |-> PySlice(SortByScoreDesc(SelectSeq(my_cards,
                           LAMBDA c : /\ c.id /= JInt(find_best_card_in_tierlist(potential).id)
                                      /\ c.score /= JNone)), DECK_SIZE - 1)]
    ELSE [support |-> <<>>,
          selected |-> PySlice(SortByScoreDesc(SelectSeq(my_cards,
                           LAMBDA c : c.id /= JNone /\ c.score /= JNone)), DECK_SIZE)]

\* recommend.run_best_cards.
run_best_cards(files, run, no_support) ==
    IF recommend_load_fails(files, run.input, run.tierlist, ~no_support) /= ""
    THEN [run EXCEPT !.status = 1,
                     !.how = recommend_load_fails(files, run.input, run.tierlist, ~no_support)]
    ELSE [recommended(run, ~no_support,
              ~no_support /\ (tierlist_format_raises(files[run.tierlist]) /= ""
                              \/ get_best_cards_by_type_from_tierlist(
                                     files[run.tierlist].dict, files[run.input].list) = <<>>),
              best_cards_deck(IF ~no_support /\ tierlist_format_raises(files[run.tierlist]) = ""
                              THEN get_best_cards_by_type_from_tierlist(
                                       files[run.tierlist].dict, files[run.input].list)
                              ELSE <<>>,
                              files[run.input].list))
          EXCEPT !.unfilled = FALSE]

\* recommend.run lines 270-396 for the counts type_counts: searched is
\* whether the support search runs (line 318).
run_counts(files, run, type_counts, searched) ==
    IF recommend_load_fails(files, run.input, run.tierlist, searched) /= ""
    THEN [run EXCEPT !.status = 1,
                     !.how = recommend_load_fails(files, run.input, run.tierlist, searched)]
    ELSE recommended(run, searched,
             searched /\ tierlist_format_raises(files[run.tierlist]) /= "",
             deck_of(IF searched /\ tierlist_format_raises(files[run.tierlist]) = ""
                     THEN best_support_search(files[run.input].list, type_counts,
                              get_best_cards_by_type_from_tierlist(
                                  files[run.tierlist].dict, files[run.input].list))
                     ELSE <<>>,
                     files[run.input].list, type_counts))

\* recommend.run on the files `files`: the record of the run (no file is
\* written).  counts are the positional counts.
recommend_result(files, input, tierlist, counts, no_support, best) ==
    LET run == [NoRun EXCEPT !.cmd = "recommend", !.input = input, !.tierlist = tierlist,
                             !.counts = counts, !.no_support = no_support,
                             !.msg = IF best THEN "best" ELSE ""]
        total_cards == Sum(type_counts_of(counts))
    IN  IF best THEN run_best_cards(files, run, no_support)
        ELSE IF Len(counts) > NUM_TYPES THEN [run EXCEPT !.status = 1]
        ELSE IF total_cards = 0 THEN [run EXCEPT !.status = 1]
        ELSE IF total_cards > DECK_SIZE THEN [run EXCEPT !.status = 1]
        ELSE run_counts(files, run, type_counts_of(counts),
                        ~no_support /\ total_cards < DECK_SIZE)

\* The recommend subcommand.
recommend_run(input, tierlist, counts, no_support, best) ==
    /\ last' = recommend_result(fs, input, tierlist, counts, no_support, best)
    /\ UNCHANGED fs

----------------------------------------------------------------------------
(* fetch.py (the update subcommand)                                        *)

\* fetch.run.  fetched is what the download gives: FMissing when urlopen
\* raises, FInvalid for a body that is no JSON, else the parsed content.
\* The content is saved to output, then enrich.run is called with a
\* namespace that has no force attribute; except Exception swallows what it
\* raises, SystemExit passes through.
fetch_run(fetched, stdout, output) ==
    LET run == [NoRun EXCEPT !.cmd = "update", !.output = output]
        saved == [fs EXCEPT ![output] = fetched]
        r == enrich_result(saved, MY_CARDS, output, ENRICHED, FALSE, FALSE)
    IN  IF fetched.kind \in {"missing", "invalid"}
        THEN /\ last' = [run EXCEPT !.status = 1, !.msg = fetched.kind]
             /\ UNCHANGED fs
        ELSE IF stdout
        THEN /\ last' = [run EXCEPT !.msg = "stdout"]
             /\ UNCHANGED fs
        ELSE IF r.run.how = "sys.exit"
        THEN /\ last' = [run EXCEPT !.status = 1, !.how = "sys.exit", !.wrote = TRUE]
             /\ fs' = r.fs
        ELSE /\ last' = [run EXCEPT !.wrote = TRUE,
                                    !.msg = IF r.run.status = 0 THEN "re-enriched"
                                            ELSE "failed to re-enrich"]
             /\ fs' = r.fs

----------------------------------------------------------------------------
(* The add subcommand on its own: the collection is any list of up to      *)
(* MaxInitCards cards drawn from AddPool, and any sequence of adds runs.   *)

MaxInitCards == 2

\* The keys an add names; they differ pairwise in one component.
AddKeys == {<<"a", 0, 1>>, <<"b", 0, 1>>, <<"a", 0, 2>>}
AddLbs == {JNone, JInt(3), JInt(4), JInt(5)}
\* The cards of an initial collection: the keys above (and one with another
\* type) at several lb values, a card with a str lb, a card with no name.
AddPool ==
    {UserCard(JStr(k[1]), JInt(k[2]), JInt(k[3]), lb) : k \in AddKeys, lb \in AddLbs}
        \cup {UserCard(JStr("a"), JInt(1), JInt(1), JInt(4)),
              UserCard(JStr("b"), JInt(0), JInt(1), JStr("x")),
              UserCard(JNone, JInt(0), JInt(1), JInt(0))}

InitAdd ==
    /\ \E cards \in SeqUpTo(AddPool, MaxInitCards) :
           fs = [p \in Paths |-> IF p = MY_CARDS THEN FList(cards) ELSE FMissing]
    /\ last = NoRun

NextAdd == \E k \in AddKeys : add_run(MY_CARDS, k[1], k[2], k[3])

SpecAdd == InitAdd /\ [][NextAdd]_vars

----------------------------------------------------------------------------
(* The enrichment join on its own: my_cards.json holds any list of up to   *)
(* MaxUserCards cards of EnrichUserPool, the tierlist any arrangement of   *)
(* up to MaxEntries entries of EnrichEntryPool, and enrich runs with the   *)
(* default paths, with and without --force.                                *)

MaxUserCards == 2
MaxEntries == 2

Ints(seq) == [k \in DOMAIN seq |-> JInt(seq[k])]
Strs(seq) == [k \in DOMAIN seq |-> JStr(seq[k])]

EnrichUserPool ==
    {UserCard(JStr("a"), JInt(0), JInt(1), lb) :
        lb \in {JNone, JStr("x"), JInt(-1), JInt(0), JInt(3), JInt(4)}}
    \cup {UserCard(JStr("b"), JInt(0), JInt(1), JInt(0)),
          UserCard(JStr("a"), JInt(0), JInt(2), JInt(1)),
          UserCard(JNone, JInt(0), JInt(1), JInt(0)),
          UserCard(JStr("a"), JStr("0"), JInt(1), JInt(0))}

EnrichEntryPool ==
    {TierlistCard(DictKey(1), JInt(1), JStr("a"), JInt(0), JInt(1),
                  JList(Ints(<<10, 20, 30, 40>>)), JList(Strs(<<"B", "A", "S", "S+">>))),
     TierlistCard(DictKey(2), JInt(2), JStr("a"), JInt(0), JInt(1),
                  JList(Ints(<<11, 21, 31, 41, 51>>)), JList(Strs(<<"C", "B", "A", "S", "S+">>))),
     TierlistCard(DictKey(3), JNone, JStr("a"), JInt(0), JInt(1),
                  JList(Ints(<<12, 22, 32, 42>>)), JList(Strs(<<"D">>))),
     TierlistCard(DictKey(4), JInt(4), JStr("b"), JInt(0), JInt(1), NoList, NoList),
     TierlistCard(DictKey(5), JInt(5), JStr("a"), JInt(0), JInt(2),
                  JList(Ints(<<15, 25, 35, 45>>)), JList(Strs(<<"A", "A", "S", "S">>))),
     TierlistCard(DictKey(6), JInt(6), JNone, JInt(0), JInt(1),
                  JList(Ints(<<16, 26, 36, 46>>)), JList(Strs(<<"F", "F", "F", "F">>)))}

\* The entries of a JSON object have pairwise different keys.
DistinctKeys(entries) ==
    \A i, j \in DOMAIN entries : i /= j => entries[i].key /= entries[j].key

InitEnrich ==
    /\ \E cards \in SeqUpTo(EnrichUserPool, MaxUserCards) :
       \E entries \in {e \in SeqUpTo(EnrichEntryPool, MaxEntries) : DistinctKeys(e)} :
           fs = [p \in Paths |-> IF p = MY_CARDS THEN FList(cards)
                                 ELSE IF p = TIERLIST THEN FTierlist(entries)
                                 ELSE FMissing]
    /\ last = NoRun

NextEnrich == \E force \in BOOLEAN : enrich_run(MY_CARDS, TIERLIST, ENRICHED, force)

SpecEnrich == InitEnrich /\ [][NextEnrich]_vars

----------------------------------------------------------------------------
(* The recommendation on its own: the enriched file holds any selection of *)
(* the cards of RecPool (in pool order), the tierlist any selection of the *)
(* entries of RecEntryPool, and recommend runs with any MaxArgs positional *)
(* counts in CountValues, or MaxNegArgs counts in NegCountValues, with and *)
(* without --no-support and --best.                                        *)

MaxArgs == 2
MaxCount == 6
CountValues == 0..MaxCount
MaxNegArgs == 3
NegCountValues == {-1, 3}

EnrichedCard(id, type, lb, score, tier) ==
    [name |-> JStr("c"), type |-> type, rarity |-> JInt(3), lb |-> JInt(lb),
     id |-> id, score |-> score, tier |-> tier]

RecPool ==
    <<EnrichedCard(JInt(1), JInt(0), 4, JInt(40), JStr("S")),
      EnrichedCard(JInt(2), JInt(0), 2, JInt(30), JStr("A")),
      EnrichedCard(JInt(3), JInt(0), 0, JInt(30), JStr("B")),
      EnrichedCard(JInt(4), JInt(1), 4, JInt(50), JStr("S+")),
      EnrichedCard(JInt(5), JInt(1), 1, JInt(10), JStr("C")),
      EnrichedCard(JInt(7), JInt(2), 0, JInt(45), JStr("S")),
      EnrichedCard(JInt(2), JInt(1), 0, JNone, JNone),
      EnrichedCard(JNone, JInt(0), 0, JInt(5), JStr("D"))>>

RecEntryPool ==
    <<TierlistCard(DictKey(1), JInt(1), JStr("c"), JInt(0), JInt(3),
                   JList(Ints(<<10, 20, 30, 40>>)), JList(Strs(<<"B", "A", "S", "S">>))),
      TierlistCard(DictKey(2), JInt(2), JStr("c"), JInt(0), JInt(3),
                   JList(Ints(<<15, 20, 30, 35>>)), JList(Strs(<<"B", "A", "A", "S">>))),
      TierlistCard(DictKey(9), JNone, JStr("c"), JInt(1), JInt(3),
                   JList(Ints(<<5, 6, 7, 8>>)), JList(Strs(<<"B", "A", "S", "S+">>))),
      TierlistCard(DictKey(8), JInt(8), JStr("c"), JInt(1), JInt(3),
                   JList(<<>>), JList(Strs(<<"S+">>)))>>

\* The elements of seq at the indices in S, in order.
SubSeqAt(seq, S) == SelectSeq([k \in DOMAIN seq |-> IF k \in S THEN <<seq[k]>> ELSE <<>>],
                              LAMBDA x : x /= <<>>)
Pick(seq, S) == LET p == SubSeqAt(seq, S) IN [k \in DOMAIN p |-> p[k][1]]

InitRecommend ==
    /\ \E owned \in SUBSET DOMAIN RecPool :
       \E listed \in SUBSET DOMAIN RecEntryPool :
           fs = [p \in Paths |->
                    IF p = ENRICHED THEN FEnriched(NoMeta, Pick(RecPool, owned))
                    ELSE IF p = TIERLIST THEN FTierlist(Pick(RecEntryPool, listed))
                    ELSE FMissing]
    /\ last = NoRun

\* recommend writes no file, so a second run from the same files repeats the
\* first: one run is explored from every initial state.
RecommendCounts ==
    /\ last = NoRun
    /\ \E counts \in [1..MaxArgs -> CountValues] : \E no_support \in BOOLEAN :
           recommend_run(ENRICHED, TIERLIST, counts, no_support, FALSE)

RecommendBest ==
    /\ last = NoRun
    /\ \E no_support \in BOOLEAN : recommend_run(ENRICHED, TIERLIST, <<>>, no_support, TRUE)

\* The counts are parsed with type=int, which takes negative numbers too:
\* runs with MaxNegArgs positional counts of which one or more is negative.
RecommendNegative ==
    /\ last = NoRun
    /\ \E counts \in [1..MaxNegArgs -> NegCountValues] : \E no_support \in BOOLEAN :
           /\ \E k \in DOMAIN counts : counts[k] < 0
           /\ recommend_run(ENRICHED, TIERLIST, counts, no_support, FALSE)

NextRecommend == RecommendCounts \/ RecommendBest \/ RecommendNegative

SpecRecommend == InitRecommend /\ [][NextRecommend]_vars

----------------------------------------------------------------------------
(* The whole tool: the three files start in any of the shapes below, and   *)
(* add, enrich, update and recommend run in any order.  add names "a";     *)
(* enrich writes to the enriched file or, with --output set to the input   *)
(* path, over the collection itself.                                       *)

MainCard(name, lb) == UserCard(JStr(name), JInt(0), JInt(1), JInt(lb))

MainEntryA ==
    TierlistCard(DictKey(1), JInt(1), JStr("a"), JInt(0), JInt(1),
                 JList(Ints(<<10, 20, 30, 40, 50>>)), JList(Strs(<<"C", "B", "A", "S", "S+">>)))
MainEntryB ==
    TierlistCard(DictKey(2), JInt(2), JStr("b"), JInt(0), JInt(1),
                 JList(Ints(<<15, 25, 35, 45, 55>>)), JList(Strs(<<"C", "B", "A", "S", "S+">>)))

\* The shapes my_cards.json starts in.
MainUserFiles ==
    {FMissing, FInvalid, FBareObject,
     FList(<<>>), FList(<<MainCard("a", 3)>>), FList(<<MainCard("b", 0)>>)}

\* The shapes the tierlist starts in; FEnriched(NoMeta, <<>>) is an object
\* whose "cards" is an array.
MainTierlistFiles ==
    {FMissing, FInvalid, FScalar, FList(<<>>), FBareObject, FEnriched(NoMeta, <<>>),
     FTierlist(<<MainEntryA>>)}

\* The shapes the enriched file starts in.
MainEnrichedFiles == {FMissing, FInvalid, FScalar, FBareObject, FList(<<>>)}

\* What a download gives.
MainFetched == {FMissing, FInvalid, FScalar, FTierlist(<<MainEntryA, MainEntryB>>)}

\* The positional counts of a recommendation: rejected totals 0 and 7, a
\* full deck, and a request that leaves room for a support card.
MainCounts == {<<0>>, <<1>>, <<6>>, <<3, 4>>}

Init ==
    /\ \E u \in MainUserFiles : \E t \in MainTierlistFiles : \E e \in MainEnrichedFiles :
           fs = [p \in Paths |-> IF p = MY_CARDS THEN u ELSE IF p = TIERLIST THEN t ELSE e]
    /\ last = NoRun

Add == add_run(MY_CARDS, "a", 0, 1)

Enrich ==
    \E output \in {ENRICHED, MY_CARDS} : \E force \in BOOLEAN :
        enrich_run(MY_CARDS, TIERLIST, output, force)

Update == \E fetched \in MainFetched : \E stdout \in BOOLEAN : fetch_run(fetched, stdout, TIERLIST)

Recommend ==
    \E no_support \in BOOLEAN :
        \/ \E counts \in MainCounts : recommend_run(ENRICHED, TIERLIST, counts, no_support, FALSE)
        \/ recommend_run(ENRICHED, TIERLIST, <<>>, no_support, TRUE)

Next == Add \/ Enrich \/ Update \/ Recommend

Spec == Init /\ [][Next]_vars

----------------------------------------------------------------------------
(* Claims about add (checked under SpecAdd).                               *)

\* The cards of the file a run was given, before the run.
InputCards == fs[last'.input].list

\* The step is a run of add on a file holding a JSON array.
AddStep == last'.cmd = "add" /\ fs[last'.input].kind = "list"

IsMaxed(card) == card.lb.t = "int" /\ card.lb.i >= 4

\* C1 (as stated): for every card with lb >= 4, an add naming its key leaves
\* the whole collection unchanged and reports "already at max".
C1_AnyMaxedCardIgnored ==
    [][\A i \in 1..Len(InputCards) :
          (AddStep /\ IsMaxed(InputCards[i]) /\ last'.key = KeyOf(InputCards[i]))
              => (fs' = fs /\ last'.msg = "already at max")]_vars

\* C1 (amended): for every card with lb >= 4 that is the first card of the
\* collection with its (name, type, rarity), an add naming that key leaves
\* the whole collection unchanged, exits 0 and reports "already at max".
C1_FirstMaxedCardIgnored ==
    [][\A i \in 1..Len(InputCards) :
          (/\ AddStep
           /\ IsMaxed(InputCards[i])
           /\ last'.key = KeyOf(InputCards[i])
           /\ \A j \in 1..(i - 1) : KeyOf(InputCards[j]) /= KeyOf(InputCards[i]))
              => (fs' = fs /\ last'.status = 0 /\ last'.msg = "already at max")]_vars

\* C1 witness: an add was ignored on a collection of two or more cards.
C1_Witness ==
    /\ last.cmd = "add" /\ last.msg = "already at max"
    /\ Len(fs[MY_CARDS].list) >= 2
    /\ \E i \in 1..Len(fs[MY_CARDS].list) :
           IsMaxed(fs[MY_CARDS].list[i]) /\ KeyOf(fs[MY_CARDS].list[i]) = last.key

LbsIn0to4(cards) ==
    \A i \in 1..Len(cards) : cards[i].lb.t = "int" /\ cards[i].lb.i \in 0..4

\* C2: from a collection whose lb values all lie in 0..4, an add leaves every
\* lb in 0..4, changes the lb of at most one card, by exactly +1, decreases
\* none, keeps every card's name, type and rarity, and at most appends one
\* card (so by induction every lb stays in 0..4 after any sequence of adds).
C2_LbOnlyIncrementsCappedAt4 ==
    [][(AddStep /\ LbsIn0to4(InputCards)) =>
          LET old == InputCards
              new == fs'[last'.input].list
          IN  /\ fs'[last'.input].kind = "list"
              /\ LbsIn0to4(new)
              /\ Len(new) \in {Len(old), Len(old) + 1}
              /\ \A i \in 1..Len(old) :
                     /\ KeyOf(new[i]) = KeyOf(old[i])
                     /\ new[i].lb.i \in {old[i].lb.i, old[i].lb.i + 1}
              /\ Cardinality({i \in 1..Len(old) : new[i].lb /= old[i].lb}) <= 1]_vars

\* C2 witness: an add raised a card to lb 4 in a collection of several cards
\* whose lb values all lie in 0..4.
C2_Witness ==
    /\ last.cmd = "add" /\ last.msg = "increased"
    /\ Len(fs[MY_CARDS].list) >= 2
    /\ LbsIn0to4(fs[MY_CARDS].list)
    /\ \E i \in 1..Len(fs[MY_CARDS].list) : fs[MY_CARDS].list[i].lb = JInt(4)

\* No two cards share (name, type, rarity).
UniqueKeys(cards) == \A i, j \in DOMAIN cards : i /= j => KeyOf(cards[i]) /= KeyOf(cards[j])

\* C20: an add on a collection in which no two cards share a key leaves a
\* collection in which none do (so after any sequence of adds, from the
\* empty collection too); it appends the named card with lb = 0 exactly when
\* no card has the key, and else keeps the length.
C20_KeysStayUnique ==
    [][(AddStep /\ UniqueKeys(InputCards)) =>
          LET old == InputCards
              new == fs'[last'.input].list
              known == \E i \in DOMAIN old : KeyOf(old[i]) = last'.key
          IN  /\ fs'[last'.input].kind = "list"
              /\ UniqueKeys(new)
              /\ ~known => /\ last'.status = 0
                           /\ new = Append(old, [name |-> last'.key[1], type |-> last'.key[2],
                                                 rarity |-> last'.key[3], lb |-> JInt(0),
                                                 id |-> JNone, score |-> JNone, tier |-> JNone])
              /\ known => Len(new) = Len(old)]_vars

\* C20 witness: an add appended a card that shares its name and type with
\* the card before it in a collection of different keys.
C20_Witness ==
    /\ last.cmd = "add" /\ last.msg = "added"
    /\ Len(fs[MY_CARDS].list) >= 2
    /\ UniqueKeys(fs[MY_CARDS].list)
    /\ fs[MY_CARDS].list[Len(fs[MY_CARDS].list)].lb = JInt(0)
    /\ KeyOf(fs[MY_CARDS].list[Len(fs[MY_CARDS].list)]) = last.key
    /\ \E i \in 1..(Len(fs[MY_CARDS].list) - 1) :
           /\ fs[MY_CARDS].list[i].name = last.key[1]
           /\ fs[MY_CARDS].list[i].type = last.key[2]

----------------------------------------------------------------------------
(* Claims about the enrichment join (checked under SpecEnrich).            *)

\* The step is an enrich run that computed and wrote an output.
EnrichWrote == last'.cmd = "enrich" /\ last'.wrote

\* The well-formed tierlist entries the run read, and whether one has `key`.
WellFormedEntries == SelectSeq(fs[last'.tierlist].dict, WellFormedKey)
InTierlist(key) == \E k \in DOMAIN WellFormedEntries : KeyOf(WellFormedEntries[k]) = key

\* The four fields of a user card.
UserFields(card) == <<card.name, card.type, card.rarity, card.lb>>

KeptCard(card) == WellFormedKey(card) /\ InTierlist(KeyOf(card))

\* C8: the output holds a record for a well-formed user card exactly when
\* its key has a tierlist entry, and the survivors keep their input order:
\* the well-formed records of the output are, in order, the well-formed
\* matched cards of the input.
C8_UnmatchedCardsDropped ==
    [][EnrichWrote =>
          LET kept == SelectSeq(InputCards, KeptCard)
              out == SelectSeq(fs'[last'.output].list, WellFormedKey)
          IN  /\ Len(out) = Len(kept)
              /\ \A k \in DOMAIN kept : UserFields(out[k]) = UserFields(kept[k])]_vars

\* C8 witness: a run dropped an unmatched card and kept a matched one.
C8_Witness ==
    /\ last.cmd = "enrich" /\ last.wrote
    /\ Len(fs[MY_CARDS].list) = 2
    /\ Len(fs[ENRICHED].list) = 1
    /\ \A k \in 1..2 : WellFormedKey(fs[MY_CARDS].list[k])

\* The input cards that get an output record, in order.
EmittedCard(card) == ~WellFormedKey(card) \/ InTierlist(KeyOf(card))

\* The first well-formed tierlist entry with `key`.
FirstEntry(key) ==
    WellFormedEntries[CHOOSE k \in DOMAIN WellFormedEntries :
        /\ KeyOf(WellFormedEntries[k]) = key
        /\ \A j \in 1..(k - 1) : KeyOf(WellFormedEntries[j]) /= key]

\* lb is an integer that indexes both arrays of the entry.
LbInRange(card, entry) ==
    /\ IsInt(card.lb)
    /\ entry.scores.t = "list" /\ entry.tiers.t = "list"
    /\ 0 <= card.lb.i /\ card.lb.i < Len(entry.scores.l) /\ card.lb.i < Len(entry.tiers.l)

\* C9: the record of a matched user card carries the entry's id when the
\* entry has one, and score = scores[lb], tier = tiers[lb] exactly when lb is
\* an integer in the range of both arrays; otherwise the record is still
\* emitted, without score and tier, and the run ends with status 0.
C9_ScoreTierAtLb ==
    [][(last'.cmd = "enrich" /\ ~load_json_exits(fs, last'.input) /\ fs[last'.input].kind = "list"
          /\ fs[last'.tierlist].kind = "object" /\ fs[last'.tierlist].cards = "dict"
          /\ last'.msg /= "up to date") =>
          LET emitted == SelectSeq(InputCards, EmittedCard)
              out == fs'[last'.output].list
          IN  /\ last'.status = 0 /\ last'.wrote
              /\ Len(out) = Len(emitted)
              /\ \A k \in DOMAIN emitted :
                     WellFormedKey(emitted[k]) =>
                         LET entry == FirstEntry(KeyOf(emitted[k]))
                         IN  /\ UserFields(out[k]) = UserFields(emitted[k])
                             /\ out[k].id = entry.id
                             /\ IF LbInRange(emitted[k], entry)
                                THEN /\ out[k].score = entry.scores.l[emitted[k].lb.i + 1]
                                     /\ out[k].tier = entry.tiers.l[emitted[k].lb.i + 1]
                                ELSE out[k].score = JNone /\ out[k].tier = JNone]_vars

\* C9 witness: one run emitted a record with score and tier and a record of
\* a matched card at lb = 4 against 4-element arrays, without score or tier.
C9_Witness ==
    /\ last.cmd = "enrich" /\ last.wrote /\ last.status = 0
    /\ Len(fs[ENRICHED].list) = 2
    /\ fs[ENRICHED].list[1].score /= JNone /\ fs[ENRICHED].list[1].tier /= JNone
    /\ fs[ENRICHED].list[2].lb = JInt(4) /\ fs[ENRICHED].list[2].id = JInt(1)
    /\ fs[ENRICHED].list[2].score = JNone /\ fs[ENRICHED].list[2].tier = JNone

\* A card or entry whose name, type or rarity is missing or of the wrong type.
Malformed(card) == ~WellFormedKey(card)

\* C11: an enrich run that reads its inputs writes, whatever malformed cards
\* and entries they hold; the malformed cards are in the output as they are
\* in the input (no id, score or tier), the other cards are enriched as if
\* the malformed cards and the malformed tierlist entries were not there.
C11_MalformedPassedThrough ==
    [][(last'.cmd = "enrich" /\ last'.msg /= "up to date" /\ last'.output /= last'.input) =>
          /\ last'.wrote
          /\ SelectSeq(fs'[last'.output].list, Malformed) = SelectSeq(InputCards, Malformed)
          /\ \A k \in DOMAIN SelectSeq(InputCards, Malformed) :
                 /\ SelectSeq(InputCards, Malformed)[k].id = JNone
                 /\ SelectSeq(InputCards, Malformed)[k].score = JNone
                 /\ SelectSeq(InputCards, Malformed)[k].tier = JNone
          /\ SelectSeq(fs'[last'.output].list, WellFormedKey)
                 = enrich_cards(SelectSeq(InputCards, WellFormedKey),
                                build_tierlist_index(WellFormedEntries)).enriched]_vars

\* C11 witness: a malformed card stands before a card that got its score,
\* and a malformed entry stands before the entry that card matched.
C11_Witness ==
    /\ last.cmd = "enrich" /\ last.wrote
    /\ Len(fs[last.input].list) = 2 /\ Len(fs[last.output].list) = 2
    /\ Malformed(fs[last.input].list[1])
    /\ fs[last.output].list[1] = fs[last.input].list[1]
    /\ fs[last.output].list[2].score /= JNone
    /\ Len(fs[last.tierlist].dict) = 2
    /\ Malformed(fs[last.tierlist].dict[1])

\* The index enrich.run builds from the tierlist it reads.
TierIndex == build_tierlist_index(fs[last'.tierlist].dict)

\* C13: the index an enrich run builds has exactly the keys of the
\* well-formed entries of the tierlist, each once, and maps a key to the
\* first well-formed entry that has it.
C13_IndexKeepsFirst ==
    [][EnrichWrote =>
          /\ DOMAIN TierIndex = {KeyOf(WellFormedEntries[k]) : k \in DOMAIN WellFormedEntries}
          /\ \A key \in DOMAIN TierIndex : TierIndex[key] = FirstEntry(key)]_vars

\* C13 witness: the tierlist read has two well-formed entries with one key
\* and different scores, and the card written has the score of the first.
C13_Witness ==
    /\ last.cmd = "enrich" /\ last.wrote
    /\ Len(fs[last.tierlist].dict) = 2
    /\ WellFormedKey(fs[last.tierlist].dict[1]) /\ WellFormedKey(fs[last.tierlist].dict[2])
    /\ KeyOf(fs[last.tierlist].dict[1]) = KeyOf(fs[last.tierlist].dict[2])
    /\ \E k \in DOMAIN fs[last.output].list :
           /\ fs[last.output].list[k].score /= JNone
           /\ fs[last.output].list[k].score
                  = fs[last.tierlist].dict[1].scores.l[fs[last.output].list[k].lb.i + 1]
           /\ fs[last.output].list[k].score
                  /= fs[last.tierlist].dict[2].scores.l[fs[last.output].list[k].lb.i + 1]

----------------------------------------------------------------------------
(* Claims about the recommendation (checked under SpecRecommend).          *)

\* The last run printed a deck for per-category counts that are each in
\* 0..6 with a total in 1..6.
Recommended ==
    /\ last.cmd = "recommend" /\ last.msg /= "best" /\ last.status = 0
    /\ \A k \in DOMAIN last.counts : last.counts[k] \in 0..DECK_SIZE
    /\ Sum(type_counts_of(last.counts)) \in 1..DECK_SIZE

\* The enriched collection the last run read.
MyCards == fs[last.input].list

DeckSize == Len(last.selected) + Len(last.support)

\* C5: the owned cards selected plus one for the support card (if any) are
\* at most 6, for per-category counts and for --best.
C5_AtMostSixCards ==
    (Recommended \/ (last.cmd = "recommend" /\ last.msg = "best" /\ last.status = 0))
        => DeckSize <= DECK_SIZE

\* C5 witness: a deck of 5 owned cards and a support card, out of a
\* collection of 7 or more cards with a score.
C5_Witness ==
    /\ Recommended
    /\ Len(last.support) = 1 /\ Len(last.selected) = 5
    /\ Len(SelectSeq(MyCards, LAMBDA c : c.score /= JNone)) >= 7

\* The cards of the collection have pairwise different ids.
DistinctIds(cards) == \A i, j \in DOMAIN cards : i /= j => cards[i].id /= cards[j].id

\* C6: when the owned cards have pairwise distinct ids, so have the owned
\* cards of the deck, and none of them has the id of the support card.
C6_NoIdTwice ==
    (Recommended /\ DistinctIds(MyCards)) =>
        /\ DistinctIds(last.selected)
        /\ \A k \in DOMAIN last.selected :
               last.support /= <<>> => last.selected[k].id /= JInt(last.support[1].id)

\* C6 witness: the support card is one the user owns below max limit break,
\* and the deck holds per-category and backfilled cards.
C6_Witness ==
    /\ Recommended /\ DistinctIds(MyCards)
    /\ last.support /= <<>>
    /\ \E k \in DOMAIN MyCards :
           MyCards[k].id = JInt(last.support[1].id) /\ MyCards[k].lb.i < 4
    /\ Len(last.selected) > Sum(type_counts_of(last.counts))

\* The number of cards of type t in the deck, the support card included.
DeckCount(t) ==
    Cardinality({k \in DOMAIN last.selected : last.selected[k].type = JInt(t)})
        + (IF last.support /= <<>> /\ last.support[1].type = t THEN 1 ELSE 0)

\* The number of owned cards of type t.
OwnedCount(t) == Cardinality({k \in DOMAIN MyCards : MyCards[k].type = JInt(t)})

\* C7 (as stated): when the collection holds at least the requested number
\* of cards of every category, the deck holds exactly the requested number
\* of cards of every category.
C7_ExactCountsInDeck ==
    (Recommended /\ \A t \in 0..(NUM_TYPES - 1) : OwnedCount(t) >= type_counts_of(last.counts)[t + 1])
        => \A t \in 0..(NUM_TYPES - 1) : DeckCount(t) = type_counts_of(last.counts)[t + 1]

\* The number of owned cards of type t that have an id, and not the id of
\* the support card.
OwnedUsableCount(t) ==
    Cardinality({k \in DOMAIN MyCards :
        /\ MyCards[k].type = JInt(t)
        /\ MyCards[k].id /= JNone
        /\ last.support /= <<>> => MyCards[k].id /= JInt(last.support[1].id)})

\* C7 (amended): when the collection holds, for every category, at least
\* the requested number of cards that have an id other than the support
\* card's, the deck holds at least the requested number of cards of every
\* category, and exactly the requested number when the requested total is 6.
C7_CountsMetInDeck ==
    (Recommended /\ \A t \in 0..(NUM_TYPES - 1) :
                        OwnedUsableCount(t) >= type_counts_of(last.counts)[t + 1])
        => \A t \in 0..(NUM_TYPES - 1) :
               /\ DeckCount(t) >= type_counts_of(last.counts)[t + 1]
               /\ Sum(type_counts_of(last.counts)) = DECK_SIZE
                      => DeckCount(t) = type_counts_of(last.counts)[t + 1]

\* C7 witness: a request for two categories is met with a support card
\* filling one of the requested slots.
C7_Witness ==
    /\ Recommended
    /\ last.counts[1] >= 2 /\ last.counts[2] >= 1
    /\ \A t \in 0..(NUM_TYPES - 1) : OwnedUsableCount(t) >= type_counts_of(last.counts)[t + 1]
    /\ last.support /= <<>> /\ last.support[1].type = 0
    /\ DeckCount(0) = last.counts[1]

----------------------------------------------------------------------------
(* Claims about the files (checked under Spec).                            *)

EnrichStep == last'.cmd = "enrich"

\* enrich_cards left the records of the list it was given as they were.
InputRecordsKept == last'.wrote => last'.cards_after = fs[last'.input].list

\* C3 (as stated): every enrich run leaves the user-card file as it was, and
\* enrich_cards leaves every input record unchanged.
C3_SourceNeverMutated ==
    [][EnrichStep => (fs'[last'.input] = fs[last'.input] /\ InputRecordsKept)]_vars

\* C3 (amended): every enrich run whose output path is not its input path
\* leaves the user-card file as it was, and in every enrich run enrich_cards
\* leaves every input record unchanged.
C3_SourceKeptUnlessOutputIsInput ==
    [][EnrichStep =>
          /\ last'.output /= last'.input => fs'[last'.input] = fs[last'.input]
          /\ InputRecordsKept]_vars

\* C3 witness: enrich wrote an enriched file with a scored card next to a
\* collection file that still is the plain list.
C3_Witness ==
    /\ last.cmd = "enrich" /\ last.wrote /\ last.output /= last.input
    /\ fs[last.input].kind = "list"
    /\ \E k \in DOMAIN fs[last.output].list : fs[last.output].list[k].score /= JNone

\* The run follows an enrich run of the same paths that returned 0, and
\* finds the user-card file and the tierlist with the hashes that run saw.
SecondEnrich ==
    /\ last.cmd = "enrich" /\ last.status = 0
    /\ EnrichStep
    /\ last'.input = last.input /\ last'.tierlist = last.tierlist /\ last'.output = last.output
    /\ last'.input_hash = last.input_hash /\ last'.tierlist_hash = last.tierlist_hash

\* C4: the second of two enrich runs on unchanged inputs returns 0 and
\* leaves the output file (every file) identical; without --force it skips
\* and writes nothing, with --force it writes the same metadata and cards.
C4_SecondEnrichSameOutput ==
    [][SecondEnrich =>
          /\ last'.status = 0
          /\ fs' = fs
          /\ ~last'.force => (last'.msg = "up to date" /\ ~last'.wrote)
          /\ last'.force => (last'.wrote /\ fs'[last'.output].meta.present)]_vars

\* C4 witness: an unforced run skipped over an output with enriched cards
\* (the output holds the current hashes, so an earlier run wrote it).
C4_Witness ==
    /\ last.cmd = "enrich" /\ ~last.force /\ last.msg = "up to date"
    /\ fs[last.output].list /= <<>>
    /\ fs[last.output].meta = Meta(last.input_hash, last.tierlist_hash)

\* The tierlist is an object holding a "cards" object.
TierlistShape(content) == content.kind = "object" /\ content.cards = "dict"

\* A file the run needs is missing or has not the expected top-level shape:
\* the collection of add and enrich is a JSON array, the enriched file of
\* recommend an array or an object with "cards"; enrich reads the tierlist
\* unless it skips, recommend when it searches a support card.
BadFile ==
    \/ /\ last'.cmd = "add"
       /\ fs[last'.input].kind /= "list"
    \/ /\ last'.cmd = "enrich" /\ last'.msg /= "up to date"
       /\ fs[last'.input].kind /= "list" \/ ~TierlistShape(fs[last'.tierlist])
    \/ /\ last'.cmd = "recommend"
       /\ \/ load_json_exits(fs, last'.input)
          \/ load_enriched_cards_exits(fs[last'.input])
          \/ /\ ~last'.no_support
             /\ last'.msg = "best" \/ Sum(type_counts_of(last'.counts)) < DECK_SIZE
             /\ ~TierlistShape(fs[last'.tierlist])

\* C10 (as stated): an add, enrich or recommend run that meets a missing
\* file or a wrong top-level shape ends with a non-zero exit status.
C10_BadFilesAreFatal == [][BadFile => last'.status /= 0]_vars

\* C12 (as stated): an update that saved the downloaded tierlist next to a
\* collection that is a JSON array, the download being an object with a
\* "cards" object, and returned 0 leaves an enriched file whose cards are
\* the enrichment of my_cards.json with the new tierlist.
C12_UpdateReEnriches ==
    [][(/\ last'.cmd = "update" /\ last'.wrote /\ last'.status = 0
        /\ fs[MY_CARDS].kind = "list"
        /\ TierlistShape(fs'[last'.output])) =>
          /\ fs'[ENRICHED].kind = "object" /\ fs'[ENRICHED].cards = "list"
          /\ fs'[ENRICHED].list
                 = enrich_cards(fs'[MY_CARDS].list,
                                build_tierlist_index(fs'[last'.output].dict)).enriched]_vars

\* The exclude_card_id of the per-category phase of the last run: the id of
\* the support card, None without one.
ExcludedId == IF last.support /= <<>> THEN JInt(last.support[1].id) ELSE JNone

\* The counts of the per-category phase: the support card takes a slot of
\* its category.
PhaseCounts ==
    IF last.support /= <<>>
    THEN sim_type_counts_of(type_counts_of(last.counts), last.support[1].type)
    ELSE type_counts_of(last.counts)

\* The cards the per-category phase selects.
PhasePick == select_best_cards_by_type(MyCards, PhaseCounts, ExcludedId)

\* The cards of `cards` of category t.
OfCategory(cards, t) == SelectSeq(cards, LAMBDA c : c.type = JInt(t))

\* The owned cards other than the borrowed support card.
OwnedNotBorrowed ==
    SelectSeq(MyCards, LAMBDA c : last.support /= <<>> => c.id /= JInt(last.support[1].id))

\* picked are min(n, number of owned) of the owned cards, and no owned card
\* left out has a higher score than a picked one.
TopN(picked, owned, n) ==
    /\ Len(picked) = (IF n <= Len(owned) THEN n ELSE Len(owned))
    /\ Range(picked) \subseteq Range(owned)
    /\ \A c \in Range(owned) \ Range(picked) :
           \A p \in Range(picked) : ScoreOf(c) <= ScoreOf(p)

\* C14 (as stated): for each category the per-category phase selects the
\* top N owned cards of the category by score, the borrowed support card
\* set aside.
C14_TopNPerCategory ==
    Recommended =>
        \A t \in 0..(NUM_TYPES - 1) :
            TopN(OfCategory(PhasePick, t), OfCategory(OwnedNotBorrowed, t), PhaseCounts[t + 1])

\* The cards of the deck after those of the per-category phase.
Backfilled == SubSeq(last.selected, Len(PhasePick) + 1, Len(last.selected))

\* The owned cards with a score that are not in the deck, the borrowed
\* support card set aside.
LeftOut ==
    {c \in Range(OwnedNotBorrowed) : c.score /= JNone /\ c \notin Range(last.selected)}

\* The deck is the per-category selection followed, when that and the
\* support card are fewer than 6, by owned cards that are not selected yet
\* and are not the support card, until the deck is full or no owned card
\* with a score is left; no card left out has a higher score than an added
\* one.
BackfilledBest ==
    /\ SubSeq(last.selected, 1, Len(PhasePick)) = PhasePick
    /\ Len(PhasePick) + Len(last.support) >= DECK_SIZE => Backfilled = <<>>
    /\ Range(Backfilled) \subseteq Range(OwnedNotBorrowed) \ Range(PhasePick)
    /\ \A i, j \in DOMAIN Backfilled : i /= j => Backfilled[i] /= Backfilled[j]
    /\ DeckSize = DECK_SIZE \/ LeftOut = {}
    /\ \A c \in LeftOut : \A b \in Range(Backfilled) : ScoreOf(c) <= ScoreOf(b)

\* C15 (as stated): every deck is backfilled with the best remaining cards.
C15_BackfillBestRemaining == Recommended => BackfilledBest

\* C15 (amended): when the owned cards have pairwise different ids, the deck
\* is backfilled with the best remaining cards.
C15_BackfillBestOfDistinctIds == (Recommended /\ DistinctIds(MyCards)) => BackfilledBest

\* C15 witness: next to a support card, cards were backfilled and an owned
\* card with a score stays out of the full deck.
C15_Witness ==
    /\ Recommended /\ DistinctIds(MyCards)
    /\ last.support /= <<>>
    /\ Backfilled /= <<>>
    /\ LeftOut /= {}

\* The last run searched a support card in a tierlist of the right format.
Searched ==
    /\ Recommended /\ ~last.no_support
    /\ Sum(type_counts_of(last.counts)) < DECK_SIZE
    /\ tierlist_format_raises(fs[last.tierlist]) = ""

\* The borrow candidates of the last run, one per category.
Candidates == get_best_cards_by_type_from_tierlist(fs[last.tierlist].dict, MyCards)

\* (sum of tier values, sum of scores) of a support card and owned cards.
Totals(support, selected) ==
    <<get_tier_value(support.tier)
          + Sum([k \in DOMAIN selected |-> get_tier_value(selected[k].tier)]),
      support.score + Sum([k \in DOMAIN selected |-> ScoreOf(selected[k])])>>

LexGE(a, b) == a[1] > b[1] \/ (a[1] = b[1] /\ a[2] >= b[2])

\* C16: a run that searches a support card chooses one exactly when there
\* is a candidate; it is one of the candidates, and the totals of its deck
\* are lexicographically at least those of every candidate's simulated deck.
C16_SupportMaximizesTierThenScore ==
    Searched =>
        /\ (last.support /= <<>>) <=> (Candidates /= <<>>)
        /\ last.support /= <<>> =>
               /\ last.support[1] \in Range(Candidates)
               /\ \A k \in DOMAIN Candidates :
                      LexGE(Totals(last.support[1], last.selected),
                            Totals(Candidates[k],
                                   simulate_borrow(MyCards, type_counts_of(last.counts),
                                                   Candidates[k]).selected))

\* C16 witness: of two candidates the chosen one has the deck with the
\* higher tier total and the lower score total.
C16_Witness ==
    /\ Searched /\ last.support /= <<>>
    /\ \E k \in DOMAIN Candidates :
           /\ Candidates[k] /= last.support[1]
           /\ Totals(last.support[1], last.selected)[1]
                  > Totals(Candidates[k],
                           simulate_borrow(MyCards, type_counts_of(last.counts),
                                           Candidates[k]).selected)[1]
           /\ Totals(last.support[1], last.selected)[2]
                  < Totals(Candidates[k],
                           simulate_borrow(MyCards, type_counts_of(last.counts),
                                           Candidates[k]).selected)[2]

\* The id get_best_cards_by_type_from_tierlist gives an entry: its "id",
\* else its key when that is a number, else 0.
EntryId(e) == IF IsInt(e.id) THEN e.id.i ELSE IF e.key.isdigit THEN e.key.n ELSE 0

\* The tierlist entries of category t with non-empty scores and tiers whose
\* id is not the id of a card owned at lb = 4.
Eligible(t) ==
    {e \in Range(fs[last.tierlist].dict) :
        /\ e.type = JInt(t)
        /\ e.scores.t = "list" /\ e.scores.l /= <<>>
        /\ e.tiers.t = "list" /\ e.tiers.l /= <<>>
        /\ \A k \in DOMAIN MyCards :
               MyCards[k].lb = JInt(4) => MyCards[k].id /= JInt(EntryId(e))}

\* (tier value of the last tier, maximum score) of an entry.
EntryPair(e) ==
    <<get_tier_value(e.tiers.l[Len(e.tiers.l)]), MaxOf({e.scores.l[j].i : j \in DOMAIN e.scores.l})>>

\* C17: there is one borrow candidate for every category that has an
\* eligible tierlist entry and none for the others; the candidate is an
\* eligible entry of its category, and no eligible entry of the category has
\* a greater (tier value of the last tier, maximum score).
C17_CandidateIsBestEligible ==
    Searched =>
        /\ \A t \in 0..(NUM_TYPES - 1) :
               Cardinality({k \in DOMAIN Candidates : Candidates[k].type = t})
                   = (IF Eligible(t) = {} THEN 0 ELSE 1)
        /\ \A k \in DOMAIN Candidates :
               \E e \in Eligible(Candidates[k].type) :
                   /\ Candidates[k].id = EntryId(e)
                   /\ <<get_tier_value(Candidates[k].tier), Candidates[k].score>> = EntryPair(e)
                   /\ \A other \in Eligible(Candidates[k].type) : LexGE(EntryPair(e), EntryPair(other))

\* C17 witness: the tierlist has an entry of category 0 that is owned at
\* lb = 4 and an entry of category 1 with empty scores, and there is a
\* candidate for both categories.
C17_Witness ==
    /\ Searched
    /\ Len(Candidates) = 2
    /\ \E e \in Range(fs[last.tierlist].dict) : e.type = JInt(0) /\ e \notin Eligible(0)
    /\ \E e \in Range(fs[last.tierlist].dict) : e.type = JInt(1) /\ e \notin Eligible(1)

\* The output file exists and the up-to-date check cannot read hashes from
\* it: it is no JSON, no object, or has no metadata.
UnreadableOutput(content) ==
    /\ content.kind /= "missing"
    /\ content.kind /= "object" \/ ~content.meta.present

\* C18 (as stated): an enrich run without --force that finds an unreadable
\* output file next to valid inputs writes the fresh enrichment and
\* returns 0.
C18_UnreadableOutputIgnored ==
    [][(/\ EnrichStep /\ ~last'.force /\ last'.output /= last'.input
        /\ UnreadableOutput(fs[last'.output])
        /\ fs[last'.input].kind = "list"
        /\ TierlistShape(fs[last'.tierlist])) =>
          /\ last'.status = 0 /\ last'.wrote
          /\ fs'[last'.output]
                 = FEnriched(Meta(get_file_hash(fs, last'.input), get_file_hash(fs, last'.tierlist)),
                             enrich_cards(fs[last'.input].list,
                                          build_tierlist_index(fs[last'.tierlist].dict)).enriched)]_vars

\* The enrichment of the collection in `files` with the tierlist in `files`.
Enrichment(files, input, tierlist) ==
    enrich_cards(files[input].list, build_tierlist_index(files[tierlist].dict)).enriched

\* The enriched file in `files` holds the hashes of the collection and the
\* tierlist in `files`.
HashesCurrent(files) ==
    /\ files[ENRICHED].kind = "object" /\ files[ENRICHED].meta.present
    /\ files[ENRICHED].meta.input_hash = get_file_hash(files, MY_CARDS)
    /\ files[ENRICHED].meta.tierlist_hash = get_file_hash(files, TIERLIST)

\* C19: in any sequence of add, update, enrich and recommend runs, an enrich
\* run that skips returns 0 over an output whose cards are the enrichment
\* of the current collection with the current tierlist; and an add that
\* changes the collection or an update that changes the tierlist leaves an
\* enriched file that was current with hashes that are not, so that the
\* next enrich run does not skip.
C19_SkipOnlyWhenCurrent ==
    [][/\ (EnrichStep /\ last'.msg = "up to date") =>
              /\ last'.status = 0 /\ ~last'.force
              /\ fs[last'.input].kind = "list" /\ TierlistShape(fs[last'.tierlist])
              /\ fs[last'.output].cards = "list"
              /\ fs[last'.output].list = Enrichment(fs, last'.input, last'.tierlist)
       /\ (last'.cmd \in {"add", "update"} /\ HashesCurrent(fs)
               /\ (fs'[MY_CARDS] /= fs[MY_CARDS] \/ fs'[TIERLIST] /= fs[TIERLIST])) =>
              ~HashesCurrent(fs')
       /\ (EnrichStep /\ last'.output = ENRICHED /\ ~HashesCurrent(fs)) =>
              last'.msg /= "up to date"]_vars

\* C19 witness: an enrich run skipped over a non-empty enrichment of a
\* collection an add has raised to lb = 4 with a tierlist an update saved.
C19_Witness ==
    /\ last.cmd = "enrich" /\ last.msg = "up to date" /\ last.output = ENRICHED
    /\ fs[ENRICHED].list /= <<>>
    /\ \E k \in DOMAIN fs[MY_CARDS].list : fs[MY_CARDS].list[k].lb = JInt(4)
    /\ Len(fs[TIERLIST].dict) = 2

\* The ids of the owned cards that have an id and a score.
ScoredIds == {MyCards[k].id : k \in {j \in DOMAIN MyCards :
                 MyCards[j].id /= JNone /\ MyCards[j].score /= JNone}}

\* C21: for counts that are each >= 0 with a total in 1..6, when the
\* collection holds 6 or more cards with an id and a score and pairwise
\* distinct ids, the deck (owned cards plus the support card) has exactly
\* 6 cards; and "could not fill all 6 slots" is printed only for a deck of
\* fewer than 6 cards.
C21_DeckFilledWhenPossible ==
    Recommended =>
        /\ Cardinality(ScoredIds) >= DECK_SIZE => DeckSize = DECK_SIZE
        /\ last.unfilled => DeckSize < DECK_SIZE

\* C21 witness: out of a collection of 6 cards with an id and a score, of
\* which the user owns the support card, a request for 2 cards is filled
\* up to 5 owned cards and the support card; no warning is printed.
C21_Witness ==
    /\ Recommended
    /\ Cardinality(ScoredIds) = DECK_SIZE
    /\ Sum(type_counts_of(last.counts)) = 2
    /\ Len(last.support) = 1 /\ JInt(last.support[1].id) \in ScoredIds
    /\ Len(last.selected) = DECK_SIZE - 1
    /\ ~last.unfilled

\* The last run printed a deck for integer counts with a total in 1..6.
Accepted ==
    /\ last.cmd = "recommend" /\ last.msg /= "best" /\ last.status = 0
    /\ Sum(type_counts_of(last.counts)) \in 1..DECK_SIZE

\* No category has more cards in the per-category selection than requested
\* (a negative count is read as a request for no card).
PhaseWithinCounts ==
    \A t \in 0..(NUM_TYPES - 1) :
        Len(OfCategory(PhasePick, t)) <=
            (IF type_counts_of(last.counts)[t + 1] > 0 THEN type_counts_of(last.counts)[t + 1] ELSE 0)

\* C22 (as stated): for every vector of integer counts with a total in
\* 1..6, negative entries included, the deck has at most 6 cards and the
\* per-category phase gives no category more owned cards than requested.
C22_ValidationBoundsDeck ==
    Accepted => (DeckSize <= DECK_SIZE /\ PhaseWithinCounts)

=============================================================================
